---- MODULE Spec2Model ----
(***************************************************************************)
(* chainmind: the on-chain trade operations (the /api/trade/buy handler    *)
(* with its four-aggregator quote chain, the trade service's buyToken,     *)
(* sellToken and unwrapWeth, the /api/trade/sell handler) and the exchange *)
(* clients' order operations, as one state machine.  One operation runs at *)
(* a time (each request is handled to completion, awaiting every call in   *)
(* sequence); every await is one step, and every outbound call is appended *)
(* to the log `calls` with what it was asked and how it answered.          *)
(*                                                                         *)
(* Amounts of native currency are counted in units of 0.0005 ETH.          *)
(***************************************************************************)
EXTENDS Integers, Sequences, FiniteSets, TLC

\* ---------------------------------------------------------------- bounds
MaxEth == 3
MaxTok == 2
MaxAmount == 2

\* ------------------------------------------------------ program constants
\* parseEther("0.0005"), the buy handler's gas buffer
GasBuffer == 1
\* parseEther(amountEth || "0.001")
DefaultAmountEth == 2

VARIABLES
  op,            \* the operation in flight ("none" when idle)
  pc,            \* its position: the await it is about to perform
  args,          \* its arguments
  calls,         \* the outbound calls of this operation, in order
  balance,       \* buy handler: the native balance it read
  amountIn,      \* buy: parseEther(amountEth)
  decimals,      \* sell: the token's decimals as read
  currentBalance,\* sell: the token balance as read
  amountToSell,  \* sell: the amount decided
  amountToUnwrap,\* unwrap: the amount decided
  swapData,      \* the quote obtained
  ethBefore,     \* sell: native balance before the swap
  receipt,       \* status of the last receipt awaited
  result,        \* what the operation returned to its caller
  ethBalance,    \* chain: the wallet's native balance
  tokenBalance,  \* chain: the wallet's balance of the token addressed
  order,         \* exchange: what the primary order call returned
  okxCredentials,  \* okxApi.credentials is set
  mexcCredentials, \* mexcApi.credentials is set
  lastSold,      \* history: the amount the operation just before decided to
                 \* sell, when it was a sell of "all" (0 otherwise)
  scan,          \* signal scan: "idle", "fetched" (posts in hand), "parsed"
  posts,         \* signal scan: the batch given to parseSignalsFromFeed
  feed,          \* signal scan: what parseSignalsFromFeed returned
  apiKey,        \* moltbookApi.apiKey: the session whose key is set, or "none"
  agents,        \* storage: whether each session has an agent with an API key
  handler,       \* per session: the route being handled and its position
  sent,          \* the Moltbook requests issued: session, endpoint, key carried
  mexcStored,    \* storage: the mexc_credentials table holds a row
  agentTable,    \* storage: the rows of moltbook_agent (id, session, key)
  nextAgentId,   \* storage: the number of the next row's id
  requests,      \* agent routes: per connection, the request being handled
  walletUse,     \* agent routes: the last trade request's session and agent row
  now,           \* the clock, in minutes
  postQueue,     \* storage: the rows of post_queue, in order of insertion
  published,     \* Moltbook: the posts created: title, time, queue row (0: none),
                 \* connection
  workers,       \* queue routes: per connection, the request being handled
  nextTitle      \* queue routes: the number of the next webhook's title

vars == <<op, pc, args, calls, balance, amountIn, decimals, currentBalance,
          amountToSell, amountToUnwrap, swapData, ethBefore, receipt, result,
          ethBalance, tokenBalance, order, okxCredentials, mexcCredentials,
          lastSold, scan, posts, feed, apiKey, agents, handler, sent,
          mexcStored, agentTable, nextAgentId, requests, walletUse,
          now, postQueue, published, workers, nextTitle>>

locals == <<balance, amountIn, decimals, currentBalance, amountToSell,
            amountToUnwrap, swapData, ethBefore, receipt>>
chain == <<ethBalance, tokenBalance>>
\* state of the other components, which the on-chain operations leave alone
signals == <<scan, posts, feed>>
moltbook == <<apiKey, agents, handler, sent>>
accounts == <<agentTable, nextAgentId, requests, walletUse>>
posting == <<now, postQueue, published, workers, nextTitle>>
others == <<order, okxCredentials, mexcCredentials, signals, moltbook,
            mexcStored, accounts, posting>>

\* ---------------------------------------------------------------- values
Call(c, target, amt, res) == [call |-> c, target |-> target, amt |-> amt, res |-> res]

NoQuote == [type |-> "none", to |-> "none", hasValue |-> FALSE, value |-> 0]
Quote(type, to, hasValue, value) ==
  [type |-> type, to |-> to, hasValue |-> hasValue, value |-> value]

NoArgs == [hasAmount |-> FALSE, amount |-> 0, all |-> FALSE, nan |-> FALSE,
           launch |-> FALSE, side |-> "", tp |-> FALSE, sl |-> FALSE, token |-> ""]
NoResult == [returned |-> FALSE, thrown |-> FALSE, status |-> 0, success |-> FALSE,
             error |-> "", via |-> "", received |-> 0]

\* res.status(s).json({error}) / return {success:false, error}
Failure(status, error) ==
  [returned |-> TRUE, thrown |-> FALSE, status |-> status, success |-> FALSE,
   error |-> error, via |-> "", received |-> 0]
\* res.json({success:true, ...}) / return {success:true, ...}
Success(via, received) ==
  [returned |-> TRUE, thrown |-> FALSE, status |-> 200, success |-> TRUE,
   error |-> "", via |-> via, received |-> received]
\* the exception leaves the operation
Thrown(msg) ==
  [returned |-> FALSE, thrown |-> TRUE, status |-> 0, success |-> FALSE,
   error |-> msg, via |-> "", received |-> 0]

\* What a fetch can come to: the transport (or the body's json()) throws, a
\* non-2xx status, a 2xx body without the field read, a 2xx body with it.
FetchOutcomes == {"throw", "notok", "empty", "ok"}
\* How the log records it: whether the request yielded what the code reads.
Answer(o) == IF o = "ok" THEN "ok" ELSE "fail"

Min(a, b) == IF a < b THEN a ELSE b
Max(a, b) == IF a > b THEN a ELSE b

\* error.message.includes(...) over the messages the calls can throw
IncludesInsufficientFunds(msg) == msg = "insufficient funds"
IncludesExceedsBalance(msg) == msg = "exceeds the balance"
IncludesNoRouteFound(msg) == msg = "No route found for this swap"
IncludesNoRoute(msg) == msg \in {"No route found for this swap", "No swap route"}

\* Messages an RPC write can throw.
RpcSendErrors == {"insufficient funds", "rpc error"}

\* ------------------------------------------------------------ frame rules
Finish(r) ==
  /\ result' = r
  /\ pc' = "done"

Log(c) == calls' = Append(calls, c)

\* The connections on which requests are handled at the same time.
Connections == {1, 2}
NoRequest == [route |-> "none", at |-> "idle"]

\* ================================================================ idle
\* The chain moves on its own: transfers in and out of the wallet.  An
\* operation sees the chain only through its calls, whose answers are drawn
\* anew at each call, so the moves are taken between operations.
ChainChange ==
  /\ pc = "idle"
  /\ \E e \in 0..MaxEth, t \in 0..MaxTok :
       /\ <<e, t>> # <<ethBalance, tokenBalance>>
       /\ ethBalance' = e
       /\ tokenBalance' = t
  /\ UNCHANGED <<op, pc, args, calls, locals, result, lastSold, others>>

\* The response has been sent; the next request starts from a clean frame.
Return ==
  /\ pc = "done"
  /\ op' = "none"
  /\ pc' = "idle"
  /\ args' = NoArgs
  /\ calls' = <<>>
  /\ balance' = 0
  /\ amountIn' = 0
  /\ decimals' = 0
  /\ currentBalance' = 0
  /\ amountToSell' = 0
  /\ amountToUnwrap' = 0
  /\ swapData' = NoQuote
  /\ ethBefore' = 0
  /\ receipt' = "none"
  /\ result' = NoResult
  /\ order' = "none"
  /\ lastSold' = IF op \in {"sellToken", "sellHandler"} /\ args.all THEN amountToSell ELSE 0
  /\ UNCHANGED <<chain, okxCredentials, mexcCredentials, signals, moltbook,
                 mexcStored, accounts, posting>>

\* ============================================== api/trade/buy.ts handler
\* The catch block of the handler.
BuyHandlerCatch(msg) ==
  IF IncludesInsufficientFunds(msg) THEN Failure(400, "Insufficient ETH for gas + swap")
  ELSE IF IncludesNoRoute(msg) THEN Failure(400, "No liquidity found")
  ELSE Failure(500, msg)

\* The request arrives: method, body, and the early returns before the try.
BuyRequest ==
  /\ pc = "idle"
  /\ op' = "buyHandler"
  /\ lastSold' = 0
  /\ UNCHANGED <<calls, locals, chain, others>>
  /\ \E method \in {"OPTIONS", "GET", "POST"}, hasToken \in BOOLEAN,
        hasAmount \in BOOLEAN, amountEth \in 0..MaxAmount, launch \in BOOLEAN :
       /\ hasAmount \/ amountEth = 0
       /\ args' = [NoArgs EXCEPT !.hasAmount = hasAmount, !.amount = amountEth,
                                 !.launch = launch]
       /\ IF method = "OPTIONS"
            THEN Finish([NoResult EXCEPT !.returned = TRUE, !.status = 200])
          ELSE IF method # "POST" THEN Finish(Failure(405, "Method not allowed"))
          ELSE IF ~hasToken THEN Finish(Failure(400, "Token address required"))
          ELSE /\ pc' = "sql"
               /\ result' = result

\* SELECT encrypted_private_key ...; decryptPrivateKey; privateKeyToAccount
BuySql ==
  /\ op = "buyHandler" /\ pc = "sql"
  /\ UNCHANGED <<op, args, locals, chain, lastSold, others>>
  /\ \E o \in {"row", "none", "throw", "badkey"} :
       /\ Log(Call("sql", "db", 0, o))
       /\ CASE o = "row" -> pc' = "getBalance" /\ result' = result
            [] o = "none" -> Finish(Failure(400, "No wallet found. Register first!"))
            [] o = "throw" -> Finish(BuyHandlerCatch("db error"))
            [] o = "badkey" -> Finish(BuyHandlerCatch("bad decrypt"))

\* parseEther(amountEth || "0.001")
ParseAmountEth(a) == IF a.hasAmount THEN a.amount ELSE DefaultAmountEth

\* balance < amountIn + parseEther("0.0005")
BuyInsufficient(bal, amt) == bal < amt + GasBuffer

\* publicClient.getBalance, then the balance check
BuyGetBalance ==
  /\ op = "buyHandler" /\ pc = "getBalance"
  /\ UNCHANGED <<op, args, decimals, currentBalance, amountToSell,
                 amountToUnwrap, swapData,
                 ethBefore, receipt, chain, lastSold, others>>
  /\ \/ /\ Log(Call("rpc.getBalance", "wallet", 0, "throw"))
        /\ Finish(BuyHandlerCatch("rpc error"))
        /\ UNCHANGED <<balance, amountIn>>
     \/ /\ Log(Call("rpc.getBalance", "wallet", ethBalance, "ok"))
        /\ balance' = ethBalance
        /\ amountIn' = ParseAmountEth(args)
        /\ IF BuyInsufficient(ethBalance, ParseAmountEth(args))
             THEN Finish(Failure(400, "Insufficient ETH"))
             ELSE pc' = "kyber.route" /\ result' = result

\* ------------------------------------------- api/trade/buy.ts getSwapQuote
\* What a provider may put in the `value` field of the transaction it builds.
ProviderValues(sellAmount) ==
  { [has |-> FALSE, v |-> 0],
    [has |-> TRUE, v |-> sellAmount],
    [has |-> TRUE, v |-> IF sellAmount = 0 THEN 1 ELSE 0] }

\* The step that follows each request of the quote chain when it does not
\* yield a quote: the next provider, in the order the function is written.
AfterKyberSkipsOdos == "para.price"
AfterKyber == "odos.quote"
AfterOdos == "para.price"
AfterPara == "inch.swap"
AfterInch == "devbuy"
\* The step that follows Kyberswap's quote: the function returns it.
AfterKyberQuoteFallsThrough == "odos.quote"
AfterKyberQuote == "send"

\* GET kyberswap /routes
KyberRoute ==
  /\ op = "buyHandler" /\ pc = "kyber.route"
  /\ UNCHANGED <<op, args, locals, result, chain, lastSold, others>>
  /\ \E o \in FetchOutcomes :
       /\ Log(Call("kyber.route", "kyberswap", amountIn, Answer(o)))
       /\ pc' = IF o = "ok" THEN "kyber.build" ELSE AfterKyber

\* POST kyberswap /route/build
KyberBuild ==
  /\ op = "buyHandler" /\ pc = "kyber.build"
  /\ UNCHANGED <<op, args, balance, amountIn, decimals, currentBalance,
                 amountToSell, amountToUnwrap, ethBefore, receipt, result, chain, lastSold, others>>
  /\ \E o \in FetchOutcomes :
       /\ Log(Call("kyber.build", "kyberswap", amountIn, Answer(o)))
       /\ IF o = "ok"
            THEN /\ swapData' = Quote("kyberswap", "kyberRouter", TRUE, amountIn)
                 /\ pc' = AfterKyberQuote
            ELSE /\ swapData' = swapData
                 /\ pc' = AfterKyber

\* POST odos /sor/quote/v2
OdosQuote ==
  /\ op = "buyHandler" /\ pc = "odos.quote"
  /\ UNCHANGED <<op, args, locals, result, chain, lastSold, others>>
  /\ \E o \in FetchOutcomes :
       /\ Log(Call("odos.quote", "odos", amountIn, Answer(o)))
       /\ pc' = IF o = "ok" THEN "odos.assemble" ELSE AfterOdos

\* POST odos /sor/assemble
OdosAssemble ==
  /\ op = "buyHandler" /\ pc = "odos.assemble"
  /\ UNCHANGED <<op, args, balance, amountIn, decimals, currentBalance,
                 amountToSell, amountToUnwrap, ethBefore, receipt, result, chain, lastSold, others>>
  /\ \E o \in FetchOutcomes :
       /\ Log(Call("odos.assemble", "odos", amountIn, Answer(o)))
       /\ IF o = "ok"
            THEN /\ \E pv \in ProviderValues(amountIn) :
                      swapData' = Quote("odos", "odosRouter", pv.has, pv.v)
                 /\ pc' = "send"
            ELSE /\ swapData' = swapData
                 /\ pc' = AfterOdos

\* GET paraswap /prices
ParaPrice ==
  /\ op = "buyHandler" /\ pc = "para.price"
  /\ UNCHANGED <<op, args, locals, result, chain, lastSold, others>>
  /\ \E o \in FetchOutcomes :
       /\ Log(Call("para.price", "paraswap", amountIn, Answer(o)))
       /\ pc' = IF o = "ok" THEN "para.tx" ELSE AfterPara

\* POST paraswap /transactions/8453: any 2xx body is returned as the quote,
\* its fields unchecked ("empty": a 2xx body without to/data/value).
ParaTx ==
  /\ op = "buyHandler" /\ pc = "para.tx"
  /\ UNCHANGED <<op, args, balance, amountIn, decimals, currentBalance,
                 amountToSell, amountToUnwrap, ethBefore, receipt, result, chain, lastSold, others>>
  /\ \E o \in FetchOutcomes :
       /\ Log(Call("para.tx", "paraswap", amountIn, IF o = "empty" THEN "ok" ELSE Answer(o)))
       /\ CASE o = "ok" ->
                 /\ \E pv \in ProviderValues(amountIn) :
                      swapData' = Quote("paraswap", "paraRouter", pv.has, pv.v)
                 /\ pc' = "send"
            [] o = "empty" ->
                 /\ swapData' = Quote("paraswap", "undefined", FALSE, 0)
                 /\ pc' = "send"
            [] OTHER ->
                 /\ swapData' = swapData
                 /\ pc' = AfterPara

\* GET 1inch /swap; with no quote the function returns null
InchSwap ==
  /\ op = "buyHandler" /\ pc = "inch.swap"
  /\ UNCHANGED <<op, args, balance, amountIn, decimals, currentBalance,
                 amountToSell, amountToUnwrap, ethBefore, receipt, result, chain, lastSold, others>>
  /\ \E o \in FetchOutcomes :
       /\ Log(Call("inch.swap", "1inch", amountIn, Answer(o)))
       /\ IF o = "ok"
            THEN /\ \E pv \in ProviderValues(amountIn) :
                      swapData' = Quote("1inch", "inchRouter", pv.has, pv.v)
                 /\ pc' = "send"
            ELSE /\ swapData' = swapData
                 /\ pc' = AfterInch

\* ------------------------------------- api/trade/buy.ts handler, continued
\* BigInt(swapData.value || amountIn.toString())
SendValue(q, amt) == IF q.hasValue THEN q.value ELSE amt

\* The step after the aggregator's transaction was handed to the wallet
\* client: its receipt is awaited, or the exception goes to the handler's catch.
AfterSendFallsBack(submitted) == IF submitted THEN "wait" ELSE "devbuy"
AfterSend(submitted) == IF submitted THEN "wait" ELSE "done"

\* walletClient.sendTransaction of the aggregator's transaction
BuySend ==
  /\ op = "buyHandler" /\ pc = "send"
  /\ UNCHANGED <<op, args, locals, chain, lastSold, others>>
  /\ LET v == SendValue(swapData, amountIn) IN
       \/ /\ ethBalance >= v
          /\ Log(Call("rpc.sendTransaction", swapData.to, v, "hash"))
          /\ pc' = AfterSend(TRUE)
          /\ result' = result
       \/ \E msg \in RpcSendErrors :
            /\ Log(Call("rpc.sendTransaction", swapData.to, v, "throw"))
            /\ result' = BuyHandlerCatch(msg)
            /\ pc' = AfterSend(FALSE)

\* swapData is null: the Clanker devbuy call, in its own try/catch
BuyDevbuy ==
  /\ op = "buyHandler" /\ pc = "devbuy"
  /\ UNCHANGED <<op, args, locals, chain, lastSold, others>>
  /\ \/ /\ ethBalance >= amountIn
        /\ Log(Call("rpc.sendTransaction", "devbuy", amountIn, "hash"))
        /\ pc' = "wait"
        /\ result' = result
     \/ /\ Log(Call("rpc.sendTransaction", "devbuy", amountIn, "throw"))
        /\ Finish(Failure(400, "Token not tradeable"))

\* swapType
SwapType(q) == IF q = NoQuote THEN "clanker" ELSE q.type

\* The statuses a mined transaction can have: the devbuy contract cannot
\* buy a token that is not of its launch venue.
MinedStatuses(q, a) ==
  IF q = NoQuote /\ ~a.launch THEN {"reverted"} ELSE {"success", "reverted"}

\* publicClient.waitForTransactionReceipt({ hash })
BuyWait ==
  /\ op = "buyHandler" /\ pc = "wait"
  /\ UNCHANGED <<op, args, balance, amountIn, decimals, currentBalance,
                 amountToSell, amountToUnwrap, swapData, ethBefore, lastSold, others>>
  /\ \/ /\ Log(Call("rpc.waitForTransactionReceipt", "swap", 0, "throw"))
        /\ receipt' = "throw"
        /\ Finish(BuyHandlerCatch("receipt timeout"))
        /\ UNCHANGED chain
     \/ \E st \in MinedStatuses(swapData, args) :
          /\ Log(Call("rpc.waitForTransactionReceipt", "swap", 0, st))
          /\ receipt' = st
          /\ pc' = "tokenInfo"
          /\ result' = result
          /\ IF st = "success"
               THEN /\ ethBalance' = Max(0, ethBalance - SendValue(swapData, amountIn))
                    /\ tokenBalance' = Min(MaxTok, tokenBalance + 1)
               ELSE UNCHANGED chain

\* symbol and decimals, read in a try whose catch is empty
BuyTokenInfo ==
  /\ op = "buyHandler" /\ pc = "tokenInfo"
  /\ UNCHANGED <<op, args, balance, amountIn, currentBalance, amountToSell,
                 amountToUnwrap, swapData, ethBefore, receipt, result, chain, lastSold, others>>
  /\ pc' = "balanceOf"
  /\ \/ /\ Log(Call("rpc.readContract", "symbol/decimals", 0, "throw"))
        /\ decimals' = 18
     \/ \E d \in 0..1 :
          /\ Log(Call("rpc.readContract", "symbol/decimals", d, "ok"))
          /\ decimals' = d

\* balanceOf, then the response
BuyBalanceOf ==
  /\ op = "buyHandler" /\ pc = "balanceOf"
  /\ UNCHANGED <<op, args, locals, chain, lastSold, others>>
  /\ \/ /\ Log(Call("rpc.readContract", "balanceOf", 0, "throw"))
        /\ Finish(BuyHandlerCatch("rpc error"))
     \/ /\ Log(Call("rpc.readContract", "balanceOf", tokenBalance, "ok"))
        /\ Finish(Success(SwapType(swapData), tokenBalance))

BuyHandler ==
  \/ BuyRequest \/ BuySql \/ BuyGetBalance
  \/ KyberRoute \/ KyberBuild \/ OdosQuote \/ OdosAssemble
  \/ ParaPrice \/ ParaTx \/ InchSwap
  \/ BuySend \/ BuyDevbuy \/ BuyWait \/ BuyTokenInfo \/ BuyBalanceOf


\* ===================================== trade service (unnamed/part_001) and
\* ===================================== the sell handler (unnamed/part_009)
MaxDecimals == 1

RECURSIVE Pow10(_)
Pow10(n) == IF n = 0 THEN 1 ELSE 10 * Pow10(n - 1)

Sells == {"sellToken", "sellHandler"}
QuotedOps == {"buyToken", "sellToken", "sellHandler"}

\* The catch block of buyToken.
BuyTokenCatch(msg) ==
  IF IncludesInsufficientFunds(msg) \/ IncludesExceedsBalance(msg)
    THEN Failure(0, "Insufficient funds. Add more ETH to your wallet.")
  ELSE IF IncludesNoRouteFound(msg)
    THEN Failure(0, "No liquidity found for this token yet. Try again later.")
  ELSE Failure(0, "Buy failed")

\* The catch block of sellToken.
SellTokenCatch(msg) ==
  IF IncludesInsufficientFunds(msg) \/ IncludesExceedsBalance(msg)
    THEN Failure(0, "Insufficient funds for gas. Add ETH to your wallet.")
  ELSE IF msg = "No tokens to sell" THEN Failure(0, "No tokens to sell.")
  ELSE IF IncludesNoRouteFound(msg) THEN Failure(0, "No liquidity found for this token yet.")
  ELSE Failure(0, "Sell failed")

\* The catch block of the sell handler.
SellHandlerCatch(msg) ==
  IF IncludesInsufficientFunds(msg) THEN Failure(200, "Insufficient gas. Add ETH.")
  ELSE IF IncludesNoRouteFound(msg) THEN Failure(200, "No liquidity found.")
  ELSE Failure(200, msg)

\* The catch block of unwrapWeth.
UnwrapCatch(msg) ==
  IF IncludesInsufficientFunds(msg)
    THEN Failure(0, "Insufficient gas. Add ETH to your wallet.")
  ELSE Failure(0, "Unwrap failed. Try again.")

\* The catch block around the operation in flight.
Catch(o, msg) ==
  CASE o = "buyToken" -> BuyTokenCatch(msg)
    [] o = "sellToken" -> SellTokenCatch(msg)
    [] o = "sellHandler" -> SellHandlerCatch(msg)
    [] o = "unwrapWeth" -> UnwrapCatch(msg)
    [] OTHER -> Thrown(msg)

\* A call of the trade service, or a request to the sell handler.  A sell's
\* amount is "all", a string parseFloat cannot read, or a number of half
\* tokens; a buy's or an unwrap's is a number of units.
TradeRequest ==
  /\ pc = "idle"
  /\ UNCHANGED <<calls, locals, chain, others>>
  /\ \E o \in {"buyToken", "sellToken", "sellHandler", "unwrapWeth"},
        method \in {"OPTIONS", "GET", "POST"}, hasToken \in BOOLEAN,
        kind \in {"all", "nan", "number", "absent"}, n \in 0..MaxAmount :
       /\ o # "sellHandler" => method = "POST" /\ hasToken
       /\ kind # "number" => n = 0
       /\ kind = "nan" => o \in Sells
       /\ kind = "absent" => o = "unwrapWeth"
       /\ kind = "all" => o # "buyToken"
       /\ op' = o
       /\ lastSold' = IF o \in {"sellToken", "sellHandler"} THEN lastSold ELSE 0
       /\ args' = [NoArgs EXCEPT !.hasAmount = kind # "absent", !.amount = n,
                                 !.all = kind = "all", !.nan = kind = "nan"]
       /\ IF method = "OPTIONS"
            THEN Finish([NoResult EXCEPT !.returned = TRUE, !.status = 200])
          ELSE IF method # "POST" THEN Finish(Failure(405, "Method not allowed"))
          ELSE IF ~hasToken THEN Finish(Failure(400, "Token address required"))
          ELSE /\ pc' = "account"
               /\ result' = result

\* getAccountFromEncryptedKey (the service), or the handler's SELECT and
\* decryptPrivateKey; then the first await of the operation
TradeAccount ==
  /\ op \in {"buyToken", "sellToken", "sellHandler", "unwrapWeth"} /\ pc = "account"
  /\ UNCHANGED <<op, args, balance, decimals, currentBalance, amountToSell,
                 amountToUnwrap, swapData, ethBefore, receipt, chain, lastSold, others>>
  /\ \E o \in {"row", "none", "throw", "badkey"} :
       /\ o \in {"none", "throw"} => op = "sellHandler"
       /\ IF op = "sellHandler" THEN Log(Call("sql", "db", 0, o)) ELSE calls' = calls
       /\ CASE o = "row" ->
                 /\ pc' = CASE op = "buyToken" -> "svc.route"
                            [] op \in Sells -> "decimals"
                            [] OTHER -> "wethBalance"
                 /\ amountIn' = IF op = "buyToken" THEN args.amount ELSE amountIn
                 /\ result' = result
            [] o = "none" ->
                 /\ Finish(Failure(400, "No wallet found. Register first!"))
                 /\ amountIn' = amountIn
            [] o = "throw" -> Finish(Catch(op, "db error")) /\ amountIn' = amountIn
            [] o = "badkey" -> Finish(Catch(op, "bad decrypt")) /\ amountIn' = amountIn

\* ------------------------------------------------------------- sellToken
\* readContract decimals
SellDecimals ==
  /\ op \in Sells /\ pc = "decimals"
  /\ UNCHANGED <<op, args, balance, amountIn, currentBalance, amountToSell,
                 amountToUnwrap, swapData, ethBefore, receipt, chain, lastSold, others>>
  /\ \/ /\ Log(Call("rpc.readContract", "decimals", 0, "throw"))
        /\ Finish(Catch(op, "rpc error"))
        /\ decimals' = decimals
     \/ \E d \in 0..MaxDecimals :
          /\ Log(Call("rpc.readContract", "decimals", d, "ok"))
          /\ decimals' = d
          /\ pc' = "balanceOf"
          /\ result' = result

\* amount === "all" ? currentBalance
\*                  : BigInt(Math.floor(parseFloat(amount) * (10 ** decimals)))
\* (a.amount counts half tokens)
AmountToSellCached(a, bal, dec) ==
  IF a.all THEN (IF lastSold # 0 THEN lastSold ELSE bal)
  ELSE (a.amount * Pow10(dec)) \div 2
AmountToSell(a, bal, dec) ==
  IF a.all THEN bal ELSE (a.amount * Pow10(dec)) \div 2

\* amountToSell === 0n
NothingToSellNever(amt) == FALSE
NothingToSell(amt) == amt = 0

\* readContract balanceOf, the amount to sell, and the zero check
SellBalanceOf ==
  /\ op \in Sells /\ pc = "balanceOf"
  /\ UNCHANGED <<op, args, balance, amountIn, decimals, amountToUnwrap, swapData,
                 ethBefore, receipt, chain, lastSold, others>>
  /\ \/ /\ Log(Call("rpc.readContract", "balanceOf", 0, "throw"))
        /\ Finish(Catch(op, "rpc error"))
        /\ UNCHANGED <<currentBalance, amountToSell>>
     \/ /\ Log(Call("rpc.readContract", "balanceOf", tokenBalance, "ok"))
        /\ currentBalance' = tokenBalance
        /\ IF args.nan
             THEN \* BigInt(NaN) throws a RangeError
                  /\ amountToSell' = amountToSell
                  /\ Finish(Catch(op, "RangeError"))
             ELSE /\ amountToSell' = AmountToSell(args, tokenBalance, decimals)
                  /\ IF NothingToSell(AmountToSell(args, tokenBalance, decimals))
                       THEN Finish(Failure(IF op = "sellHandler" THEN 200 ELSE 0,
                                           "No tokens to sell"))
                       ELSE pc' = "svc.route" /\ result' = result

\* ---------------------------------------- getSwapQuote (Kyberswap only)
SellAmount == IF op = "buyToken" THEN amountIn ELSE amountToSell

\* GET kyberswap /routes
SvcRoute ==
  /\ op \in QuotedOps /\ pc = "svc.route"
  /\ UNCHANGED <<op, args, locals, chain, lastSold, others>>
  /\ \E o \in FetchOutcomes :
       /\ Log(Call("kyber.route", "kyberswap", SellAmount, Answer(o)))
       /\ CASE o = "ok" -> pc' = "svc.build" /\ result' = result
            [] o = "notok" -> Finish(Catch(op, "Failed to get swap route"))
            [] o = "empty" -> Finish(Catch(op, "No route found for this swap"))
            [] o = "throw" -> Finish(Catch(op, "fetch failed"))

\* POST kyberswap /route/build; the function returns buildData.data, which
\* a 2xx body may lack ("empty": the caller then reads a field of undefined)
SvcBuild ==
  /\ op \in QuotedOps /\ pc = "svc.build"
  /\ UNCHANGED <<op, args, balance, amountIn, decimals, currentBalance,
                 amountToSell, amountToUnwrap, ethBefore, receipt, chain, lastSold, others>>
  /\ \E o \in FetchOutcomes :
       /\ Log(Call("kyber.build", "kyberswap", SellAmount, Answer(o)))
       /\ CASE o = "ok" ->
                 /\ swapData' = Quote("kyberswap", "kyberRouter", FALSE, 0)
                 /\ pc' = IF op = "buyToken" THEN "svc.send" ELSE "approve"
                 /\ result' = result
            [] o = "empty" ->
                 /\ swapData' = swapData
                 /\ Finish(Catch(op, "TypeError"))
            [] o = "notok" ->
                 /\ swapData' = swapData
                 /\ Finish(Catch(op, "Failed to build swap"))
            [] o = "throw" ->
                 /\ swapData' = swapData
                 /\ Finish(Catch(op, "fetch failed"))

\* ------------------------------------------------- sellToken, continued
\* The step after the approval is submitted: its receipt is awaited.
AfterApproveNoWait == "ethBefore"
AfterApprove == "waitApprove"

\* walletClient.writeContract approve(swapData.routerAddress, amountToSell)
SellApprove ==
  /\ op \in Sells /\ pc = "approve"
  /\ UNCHANGED <<op, args, locals, chain, lastSold, others>>
  /\ \/ /\ Log(Call("rpc.writeContract.approve", swapData.to, amountToSell, "hash"))
        /\ pc' = AfterApprove
        /\ result' = result
     \/ \E msg \in RpcSendErrors :
          /\ Log(Call("rpc.writeContract.approve", swapData.to, amountToSell, "throw"))
          /\ Finish(Catch(op, msg))

\* publicClient.waitForTransactionReceipt({ hash: approveHash })
SellWaitApprove ==
  /\ op \in Sells /\ pc = "waitApprove"
  /\ UNCHANGED <<op, args, balance, amountIn, decimals, currentBalance,
                 amountToSell, amountToUnwrap, swapData, ethBefore, chain, lastSold, others>>
  /\ \/ /\ Log(Call("rpc.waitForTransactionReceipt", "approve", 0, "throw"))
        /\ receipt' = "throw"
        /\ Finish(Catch(op, "receipt timeout"))
     \/ \E st \in {"success", "reverted"} :
          /\ Log(Call("rpc.waitForTransactionReceipt", "approve", 0, st))
          /\ receipt' = st
          /\ pc' = "ethBefore"
          /\ result' = result

\* publicClient.getBalance before the swap
SellEthBefore ==
  /\ op \in Sells /\ pc = "ethBefore"
  /\ UNCHANGED <<op, args, balance, amountIn, decimals, currentBalance,
                 amountToSell, amountToUnwrap, swapData, receipt, chain, lastSold, others>>
  /\ \/ /\ Log(Call("rpc.getBalance", "wallet", 0, "throw"))
        /\ Finish(Catch(op, "rpc error"))
        /\ ethBefore' = ethBefore
     \/ /\ Log(Call("rpc.getBalance", "wallet", ethBalance, "ok"))
        /\ ethBefore' = ethBalance
        /\ pc' = "sellSend"
        /\ result' = result

\* walletClient.sendTransaction of the swap, value 0n
SellSend ==
  /\ op \in Sells /\ pc = "sellSend"
  /\ UNCHANGED <<op, args, locals, chain, lastSold, others>>
  /\ \/ /\ Log(Call("rpc.sendTransaction", swapData.to, 0, "hash"))
        /\ pc' = "sellWait"
        /\ result' = result
     \/ \E msg \in RpcSendErrors :
          /\ Log(Call("rpc.sendTransaction", swapData.to, 0, "throw"))
          /\ Finish(Catch(op, msg))

\* publicClient.waitForTransactionReceipt({ hash }); a swap that succeeds
\* takes the tokens and pays out, one that reverts costs gas
SellWait ==
  /\ op \in Sells /\ pc = "sellWait"
  /\ UNCHANGED <<op, args, balance, amountIn, decimals, currentBalance,
                 amountToSell, amountToUnwrap, swapData, ethBefore, lastSold, others>>
  /\ \/ /\ Log(Call("rpc.waitForTransactionReceipt", "swap", 0, "throw"))
        /\ receipt' = "throw"
        /\ Finish(Catch(op, "receipt timeout"))
        /\ UNCHANGED chain
     \/ /\ tokenBalance >= amountToSell
        /\ Log(Call("rpc.waitForTransactionReceipt", "swap", 0, "success"))
        /\ receipt' = "success"
        /\ pc' = "ethAfter"
        /\ result' = result
        /\ tokenBalance' = tokenBalance - amountToSell
        /\ \E e \in 0..MaxEth : ethBalance' = e
     \/ /\ Log(Call("rpc.waitForTransactionReceipt", "swap", 0, "reverted"))
        /\ receipt' = "reverted"
        /\ pc' = "ethAfter"
        /\ result' = result
        /\ tokenBalance' = tokenBalance
        /\ \E e \in 0..ethBalance : ethBalance' = e

\* ethReceived > 0n ? ethReceived : 0n
EthReceivedUnclamped(after, before) == after - before
EthReceived(after, before) == IF after - before > 0 THEN after - before ELSE 0

\* publicClient.getBalance after the swap, then the result
SellEthAfter ==
  /\ op \in Sells /\ pc = "ethAfter"
  /\ UNCHANGED <<op, args, locals, chain, lastSold, others>>
  /\ \/ /\ Log(Call("rpc.getBalance", "wallet", 0, "throw"))
        /\ Finish(Catch(op, "rpc error"))
     \/ /\ Log(Call("rpc.getBalance", "wallet", ethBalance, "ok"))
        /\ Finish(Success("", EthReceived(ethBalance, ethBefore)))

\* -------------------------------------------------------------- buyToken
\* walletClient.sendTransaction({to: swapData.routerAddress, value: amountIn})
SvcBuySend ==
  /\ op = "buyToken" /\ pc = "svc.send"
  /\ UNCHANGED <<op, args, locals, chain, lastSold, others>>
  /\ \/ /\ ethBalance >= amountIn
        /\ Log(Call("rpc.sendTransaction", swapData.to, amountIn, "hash"))
        /\ pc' = "svc.wait"
        /\ result' = result
     \/ \E msg \in RpcSendErrors :
          /\ Log(Call("rpc.sendTransaction", swapData.to, amountIn, "throw"))
          /\ Finish(Catch(op, msg))

\* publicClient.waitForTransactionReceipt({ hash })
SvcBuyWait ==
  /\ op = "buyToken" /\ pc = "svc.wait"
  /\ UNCHANGED <<op, args, balance, amountIn, decimals, currentBalance,
                 amountToSell, amountToUnwrap, swapData, ethBefore, lastSold, others>>
  /\ \/ /\ Log(Call("rpc.waitForTransactionReceipt", "swap", 0, "throw"))
        /\ receipt' = "throw"
        /\ Finish(Catch(op, "receipt timeout"))
        /\ UNCHANGED chain
     \/ \E st \in {"success", "reverted"} :
          /\ Log(Call("rpc.waitForTransactionReceipt", "swap", 0, st))
          /\ receipt' = st
          /\ pc' = "svc.decimals"
          /\ result' = result
          /\ IF st = "success"
               THEN /\ ethBalance' = Max(0, ethBalance - amountIn)
                    /\ tokenBalance' = Min(MaxTok, tokenBalance + 1)
               ELSE UNCHANGED chain

\* readContract decimals
SvcBuyDecimals ==
  /\ op = "buyToken" /\ pc = "svc.decimals"
  /\ UNCHANGED <<op, args, balance, amountIn, currentBalance, amountToSell,
                 amountToUnwrap, swapData, ethBefore, receipt, chain, lastSold, others>>
  /\ \/ /\ Log(Call("rpc.readContract", "decimals", 0, "throw"))
        /\ Finish(Catch(op, "rpc error"))
        /\ decimals' = decimals
     \/ \E d \in 0..MaxDecimals :
          /\ Log(Call("rpc.readContract", "decimals", d, "ok"))
          /\ decimals' = d
          /\ pc' = "svc.balanceOf"
          /\ result' = result

\* readContract balanceOf, then the result
SvcBuyBalanceOf ==
  /\ op = "buyToken" /\ pc = "svc.balanceOf"
  /\ UNCHANGED <<op, args, locals, chain, lastSold, others>>
  /\ \/ /\ Log(Call("rpc.readContract", "balanceOf", 0, "throw"))
        /\ Finish(Catch(op, "rpc error"))
     \/ /\ Log(Call("rpc.readContract", "balanceOf", tokenBalance, "ok"))
        /\ Finish(Success("", tokenBalance))

\* ------------------------------------------------------------ unwrapWeth
\* amount === "all" || !amount ? wethBalance : parseEther(amount)
AmountToUnwrap(a, weth) == IF a.all \/ ~a.hasAmount THEN weth ELSE a.amount

\* readContract WETH balanceOf, and the two checks
UnwrapBalance ==
  /\ op = "unwrapWeth" /\ pc = "wethBalance"
  /\ UNCHANGED <<op, args, balance, amountIn, decimals, amountToSell, swapData,
                 ethBefore, receipt, chain, lastSold, others>>
  /\ \/ /\ Log(Call("rpc.readContract", "weth.balanceOf", 0, "throw"))
        /\ Finish(Catch(op, "rpc error"))
        /\ UNCHANGED <<currentBalance, amountToUnwrap>>
     \/ /\ Log(Call("rpc.readContract", "weth.balanceOf", tokenBalance, "ok"))
        /\ currentBalance' = tokenBalance
        /\ IF tokenBalance = 0
             THEN /\ Finish(Failure(0, "No WETH to unwrap"))
                  /\ amountToUnwrap' = amountToUnwrap
             ELSE /\ amountToUnwrap' = AmountToUnwrap(args, tokenBalance)
                  /\ IF AmountToUnwrap(args, tokenBalance) > tokenBalance
                       THEN Finish(Failure(0, "Not enough WETH"))
                       ELSE pc' = "withdraw" /\ result' = result

\* walletClient.writeContract withdraw(amountToUnwrap)
UnwrapWithdraw ==
  /\ op = "unwrapWeth" /\ pc = "withdraw"
  /\ UNCHANGED <<op, args, locals, chain, lastSold, others>>
  /\ \/ /\ Log(Call("rpc.writeContract.withdraw", "weth", amountToUnwrap, "hash"))
        /\ pc' = "unwrapWait"
        /\ result' = result
     \/ \E msg \in RpcSendErrors :
          /\ Log(Call("rpc.writeContract.withdraw", "weth", amountToUnwrap, "throw"))
          /\ Finish(Catch(op, msg))

\* publicClient.waitForTransactionReceipt({ hash }), then the result
UnwrapWait ==
  /\ op = "unwrapWeth" /\ pc = "unwrapWait"
  /\ UNCHANGED <<op, args, balance, amountIn, decimals, currentBalance,
                 amountToSell, amountToUnwrap, swapData, ethBefore, lastSold, others>>
  /\ \/ /\ Log(Call("rpc.waitForTransactionReceipt", "withdraw", 0, "throw"))
        /\ receipt' = "throw"
        /\ Finish(Catch(op, "receipt timeout"))
        /\ UNCHANGED chain
     \/ \E st \in {"success", "reverted"} :
          /\ Log(Call("rpc.waitForTransactionReceipt", "withdraw", 0, st))
          /\ receipt' = st
          /\ Finish(Success("", amountToUnwrap))
          /\ IF st = "success"
               THEN /\ tokenBalance' = Max(0, tokenBalance - amountToUnwrap)
                    /\ ethBalance' = Min(MaxEth, ethBalance + amountToUnwrap)
               ELSE UNCHANGED chain

TradeService ==
  \/ TradeRequest \/ TradeAccount
  \/ SellDecimals \/ SellBalanceOf \/ SvcRoute \/ SvcBuild
  \/ SellApprove \/ SellWaitApprove \/ SellEthBefore \/ SellSend \/ SellWait
  \/ SellEthAfter
  \/ SvcBuySend \/ SvcBuyWait \/ SvcBuyDecimals \/ SvcBuyBalanceOf
  \/ UnwrapBalance \/ UnwrapWithdraw \/ UnwrapWait

\* ================================= exchange clients (server/okx-api.ts,
\* ================================= server/mexc-api.ts)
onchain == <<balance, amountIn, decimals, currentBalance, amountToSell,
             amountToUnwrap, swapData, ethBefore, receipt, chain, lastSold,
             signals, moltbook, accounts, posting>>
trade == <<onchain, mexcStored>>

OkxOps == {"okx.placeOrder", "okx.buySpot", "okx.openLong", "okx.openShort"}
OkxCompound == {"okx.buySpot", "okx.openLong", "okx.openShort"}

\* What a signed request to a venue can come to: fetch or json() throws;
\* the venue answers with an error code; the venue answers code "0" but
\* rejects the order (sCode); the venue accepts.
VenueOutcomes == {"throw", "error", "rejected", "ok"}

\* The value an order operation returns: an Order, or null.
Returned(value) ==
  [returned |-> TRUE, thrown |-> FALSE, status |-> 0, success |-> value = "order",
   error |-> "", via |-> value, received |-> 0]

\* The side of the primary order of each operation, and of its TP/SL orders.
PrimarySide(o, a) ==
  CASE o \in {"okx.buySpot", "okx.openLong"} -> "buy"
    [] o = "okx.openShort" -> "sell"
    [] OTHER -> a.side
BracketSide(o) == IF o = "okx.openShort" THEN "buy" ELSE "sell"

\* okxApi.setCredentials / a client constructed anew
SetCredentials ==
  /\ pc = "idle"
  /\ okxCredentials' = ~okxCredentials
  /\ UNCHANGED <<op, pc, args, calls, result, order, mexcCredentials, trade>>

\* POST /api/mexc/credentials: storage.saveMexcCredentials (delete, then
\* insert), then mexcApi.setCredentials
MexcSaveCredentials ==
  /\ pc = "idle"
  /\ UNCHANGED <<calls, order, okxCredentials, onchain>>
  /\ op' = "mexc.saveCredentials"
  /\ args' = NoArgs
  /\ \E complete \in BOOLEAN, saved \in {"ok", "deleteThrows", "insertThrows"} :
       IF ~complete
         THEN /\ saved = "ok"
              /\ Finish(Failure(400, "API key and secret key are required"))
              /\ UNCHANGED <<mexcStored, mexcCredentials>>
       ELSE IF saved = "ok"
         THEN /\ mexcStored' = TRUE
              /\ mexcCredentials' = TRUE
              /\ Finish(Success("", 0))
       ELSE /\ mexcStored' = (saved = "deleteThrows" /\ mexcStored)
            /\ mexcCredentials' = mexcCredentials
            /\ Finish(Failure(500, "Failed to save credentials"))

\* DELETE /api/mexc/credentials: storage.deleteMexcCredentials and the answer
MexcDeleteCredentials ==
  /\ pc = "idle"
  /\ UNCHANGED <<calls, order, okxCredentials, mexcCredentials, onchain>>
  /\ op' = "mexc.deleteCredentials"
  /\ args' = NoArgs
  /\ \/ mexcStored' = FALSE /\ Finish(Success("", 0))
     \/ mexcStored' = mexcStored /\ Finish(Failure(500, "Failed to delete credentials"))

\* The server starts: the clients are constructed without credentials and
\* registerRoutes hands mexcApi the stored row, when there is one.
ServerStart ==
  /\ pc = "idle"
  /\ mexcCredentials' = mexcStored
  /\ okxCredentials' = FALSE
  /\ UNCHANGED <<op, pc, args, calls, result, order, trade>>

\* A call of an order operation of a client.
ExchangeRequest ==
  /\ pc = "idle"
  /\ UNCHANGED <<calls, result, order, okxCredentials, mexcCredentials, trade>>
  /\ \E o \in OkxOps \cup {"mexc.placeOrder"}, side \in {"buy", "sell"},
        tp \in BOOLEAN, sl \in BOOLEAN :
       /\ o \notin OkxCompound => ~tp /\ ~sl
       /\ o \in OkxCompound => side = PrimarySide(o, NoArgs)
       /\ op' = o
       /\ args' = [NoArgs EXCEPT !.side = side, !.tp = tp, !.sl = sl]
       /\ pc' = CASE o \in {"okx.openLong", "okx.openShort"} -> "okx.leverage"
                  [] o = "mexc.placeOrder" -> "mexc.order"
                  [] OTHER -> "okx.order"

\* OkxAPI.request with auth: without credentials it throws before any
\* fetch; a failure of fetch or json() is logged and thrown again.
OkxRequestOutcomes == IF okxCredentials THEN VenueOutcomes ELSE {"nocreds"}
OkxMessage(o) == IF o = "nocreds" THEN "OKX credentials not set" ELSE "fetch failed"
OkxLog(path, side, o) ==
  IF o = "nocreds" THEN calls' = calls ELSE Log(Call(path, side, 0, o))

\* The step after the primary order of a compound operation.
AfterPrimaryUnchecked(ord, a) ==
  IF a.tp \/ a.sl THEN (IF a.tp THEN "okx.tp" ELSE "okx.sl") ELSE "return"
AfterPrimary(ord, a) ==
  IF ord = "order" /\ (a.tp \/ a.sl) THEN (IF a.tp THEN "okx.tp" ELSE "okx.sl")
  ELSE "return"

\* openLong / openShort: await this.setLeverage(...), its result unused
OkxSetLeverage ==
  /\ op \in OkxOps /\ pc = "okx.leverage"
  /\ UNCHANGED <<op, args, order, okxCredentials, mexcCredentials, trade>>
  /\ \E o \in OkxRequestOutcomes :
       /\ OkxLog("okx.set-leverage", "", o)
       /\ IF o \in {"throw", "nocreds"}
            THEN Finish(Thrown(OkxMessage(o)))
            ELSE pc' = "okx.order" /\ result' = result

\* OkxAPI.placeOrder, and what the operation does with the order
OkxPlaceOrder ==
  /\ op \in OkxOps /\ pc = "okx.order"
  /\ UNCHANGED <<op, args, okxCredentials, mexcCredentials, trade>>
  /\ \E o \in OkxRequestOutcomes :
       /\ OkxLog("okx.order", PrimarySide(op, args), o)
       /\ IF o \in {"throw", "nocreds"}
            THEN /\ Finish(Thrown(OkxMessage(o)))
                 /\ order' = order
            ELSE LET ord == IF o = "ok" THEN "order" ELSE "null" IN
                 /\ order' = ord
                 /\ IF op \in OkxCompound /\ AfterPrimary(ord, args) # "return"
                      THEN pc' = AfterPrimary(ord, args) /\ result' = result
                      ELSE Finish(Returned(ord))

\* placeAlgoOrder with tpTriggerPx
OkxTakeProfit ==
  /\ op \in OkxCompound /\ pc = "okx.tp"
  /\ UNCHANGED <<op, args, order, okxCredentials, mexcCredentials, trade>>
  /\ \E o \in OkxRequestOutcomes :
       /\ OkxLog("okx.order-algo.tp", BracketSide(op), o)
       /\ IF o \in {"throw", "nocreds"} THEN Finish(Thrown(OkxMessage(o)))
          ELSE IF args.sl THEN pc' = "okx.sl" /\ result' = result
          ELSE Finish(Returned(order))

\* placeAlgoOrder with slTriggerPx
OkxStopLoss ==
  /\ op \in OkxCompound /\ pc = "okx.sl"
  /\ UNCHANGED <<op, args, order, okxCredentials, mexcCredentials, trade>>
  /\ \E o \in OkxRequestOutcomes :
       /\ OkxLog("okx.order-algo.sl", BracketSide(op), o)
       /\ IF o \in {"throw", "nocreds"} THEN Finish(Thrown(OkxMessage(o)))
          ELSE Finish(Returned(order))

\* MexcAPI.placeOrder: the signed request inside try/catch; whatever body
\* the venue sends is returned, an error payload included
MexcPlaceOrder ==
  /\ op = "mexc.placeOrder" /\ pc = "mexc.order"
  /\ UNCHANGED <<op, args, okxCredentials, mexcCredentials, trade>>
  /\ \E o \in (IF mexcCredentials THEN VenueOutcomes \ {"rejected"} ELSE {"nocreds"}) :
       /\ IF o = "nocreds" THEN calls' = calls
          ELSE Log(Call("mexc.order", args.side, 0, o))
       /\ LET ord == CASE o = "ok" -> "order"
                       [] o = "error" -> "errorPayload"
                       [] OTHER -> "null" IN
            /\ order' = ord
            /\ Finish([Returned(ord) EXCEPT !.success = ord # "null"])

\* ------------- POST /api/mexc/buy and POST /api/signals/execute (part_002)
MexcRoutes == {"mexc.buy", "mexc.execute"}

\* What placeOrder gives a route: null (the request threw), the venue's
\* error payload, or an order whose executedQty is a quantity, "0", or absent.
MexcOrders == {"null", "errorPayload", "filled", "zeroQty", "noQty"}
\* order.executedQty as a condition: a non-empty string, "0" included
ExecutedQtyTruthy(ord) == ord \in {"filled", "zeroQty"}

\* What one placeOrder of a route can return, with the outcome it is logged as.
MexcPlaced ==
  { <<"throw", "null">>, <<"error", "errorPayload">>,
    <<"ok", "filled">>, <<"ok", "zeroQty">>, <<"ok", "noQty">> }

\* res.json({ order, ...tpSlResult }) / res.json({ success: true, order, ... })
RouteAnswer(o, ord) ==
  [returned |-> TRUE, thrown |-> FALSE, status |-> 200, success |-> o = "mexc.execute",
   error |-> "", via |-> ord, received |-> 0]

\* const tradeAmount = amount || "10"
DefaultTradeAmount == 10

\* MexcAPI.buyMarket / sellMarket: the parameters handed to placeOrder, whose
\* request carries the size under the name given here.
buyMarket(symbol, quoteAmount) ==
  [symbol |-> symbol, side |-> "BUY", type |-> "MARKET",
   sizeAs |-> "quoteOrderQty", size |-> quoteAmount]
sellMarketAsQuote(symbol, quantity) ==
  [symbol |-> symbol, side |-> "SELL", type |-> "MARKET",
   sizeAs |-> "quoteOrderQty", size |-> quantity]
sellMarket(symbol, quantity) ==
  [symbol |-> symbol, side |-> "SELL", type |-> "MARKET",
   sizeAs |-> "quantity", size |-> quantity]

\* The primary order of a route: /api/mexc/buy hands on the body's symbol
\* and amount, /api/signals/execute forms the pair and the trade amount.
PrimaryOrder(o, a) ==
  IF o = "mexc.buy" THEN buyMarket(a.token, a.amount)
  ELSE LET symbol == a.token \o "USDT"
           tradeAmount == IF a.hasAmount THEN a.amount ELSE DefaultTradeAmount IN
         IF a.side = "buy" THEN buyMarket(symbol, tradeAmount)
         ELSE sellMarket(symbol, tradeAmount)

\* The request arrives: the credentials check and the body check.  A body
\* that is complete names the action and the token (the symbol and the
\* amount, for /api/mexc/buy).
MexcRouteRequest ==
  /\ pc = "idle"
  /\ UNCHANGED <<calls, order, okxCredentials, mexcCredentials, trade>>
  /\ \E o \in MexcRoutes, side \in {"buy", "sell"}, tp \in BOOLEAN, sl \in BOOLEAN,
        complete \in BOOLEAN, token \in {"BTC", "PEPE"}, amount \in 0..MaxAmount :
       /\ o = "mexc.buy" => side = "buy"
       /\ ~complete => token = "BTC" /\ amount = 0
       /\ (o = "mexc.buy" /\ complete) => amount > 0
       /\ op' = o
       /\ args' = [NoArgs EXCEPT !.side = side, !.tp = tp, !.sl = sl,
                                 !.token = IF o = "mexc.buy" THEN token \o "USDT" ELSE token,
                                 !.hasAmount = amount > 0, !.amount = amount]
       /\ IF ~mexcCredentials
            THEN Finish(Failure(400, "MEXC credentials not configured"))
          ELSE IF ~complete
            THEN Finish(Failure(400, IF o = "mexc.buy" THEN "symbol and amount are required"
                                     ELSE "action and token are required"))
          ELSE pc' = "mexc.primary" /\ result' = result

\* The step after the primary order of a route.
AfterMexcPrimary(ord, a) ==
  IF a.side = "buy" /\ (a.tp \/ a.sl) /\ ExecutedQtyTruthy(ord)
    THEN (IF a.tp THEN "mexc.tp" ELSE "mexc.sl")
    ELSE "return"

\* mexcApi.buyMarket / sellMarket, and what the route does with the order
MexcPrimary ==
  /\ op \in MexcRoutes /\ pc = "mexc.primary"
  /\ UNCHANGED <<op, args, okxCredentials, mexcCredentials, trade>>
  /\ \E pl \in MexcPlaced :
       /\ Log(Call("mexc.order", args.side, PrimaryOrder(op, args).size, pl[1])
                @@ [params |-> PrimaryOrder(op, args)])
       /\ order' = pl[2]
       /\ IF pl[2] = "null"
            THEN Finish(Failure(400, IF args.side = "buy" THEN "Failed to place buy order"
                                     ELSE "Failed to place sell order"))
          ELSE IF AfterMexcPrimary(pl[2], args) # "return"
            THEN pc' = AfterMexcPrimary(pl[2], args) /\ result' = result
          ELSE Finish(RouteAnswer(op, pl[2]))

\* placeTpSlOrders: the limit order at the take-profit price
MexcTakeProfit ==
  /\ op \in MexcRoutes /\ pc = "mexc.tp"
  /\ UNCHANGED <<op, args, order, okxCredentials, mexcCredentials, trade>>
  /\ \E pl \in MexcPlaced :
       /\ Log(Call("mexc.order.tp", "sell", 0, pl[1]))
       /\ IF args.sl THEN pc' = "mexc.sl" /\ result' = result
          ELSE Finish(RouteAnswer(op, order))

\* placeTpSlOrders: the limit order at the stop-loss price
MexcStopLoss ==
  /\ op \in MexcRoutes /\ pc = "mexc.sl"
  /\ UNCHANGED <<op, args, order, okxCredentials, mexcCredentials, trade>>
  /\ \E pl \in MexcPlaced :
       /\ Log(Call("mexc.order.sl", "sell", 0, pl[1]))
       /\ Finish(RouteAnswer(op, order))

Exchange ==
  \/ SetCredentials \/ ExchangeRequest
  \/ MexcSaveCredentials \/ MexcDeleteCredentials \/ ServerStart
  \/ OkxSetLeverage \/ OkxPlaceOrder \/ OkxTakeProfit \/ OkxStopLoss
  \/ MexcPlaceOrder
  \/ MexcRouteRequest \/ MexcPrimary \/ MexcTakeProfit \/ MexcStopLoss

\* the state of the trade operations and the exchange clients together
service == <<op, pc, args, calls, result, order, okxCredentials, mexcCredentials,
             balance, amountIn, decimals, currentBalance, amountToSell,
             amountToUnwrap, swapData, ethBefore, receipt, chain, lastSold,
             mexcStored>>
trading == <<service, accounts, posting>>

\* ====================================== signal parser (unnamed/part_005)
\* Confidences are counted in thousandths.
MaxPosts == 2
MaxPhrases == 2

\* Of the 80 symbols of KNOWN_TOKENS and the 58 words of COMMON_WORDS, those
\* the texts below use.
KNOWN_TOKENS == {"BTC"}
COMMON_WORDS == {"THE"}

\* What the patterns capture from a text: a word, with or without a leading
\* "$", after a buy word, after a sell word, or on its own.
Candidates ==
  { [text |-> "btc", dollar |-> TRUE], [text |-> "BTC", dollar |-> FALSE],
    [text |-> "foo", dollar |-> TRUE], [text |-> "foo", dollar |-> FALSE],
    [text |-> "the", dollar |-> FALSE] }
Phrases ==
  {ph \in [intent : {"buy", "sell", "none"}, token : Candidates] :
     ph.intent = "none" => ph.token.dollar}
Votes ==
  { [upvotes |-> 0, downvotes |-> 10], [upvotes |-> 0, downvotes |-> 0],
    [upvotes |-> 40, downvotes |-> 10] }
SeqsUpTo(S, n) == UNION {[1..k -> S] : k \in 0..n}
Posts == [votes : Votes, phrases : SeqsUpTo(Phrases, MaxPhrases)]

\* token.replace(/^\$/, "").toUpperCase()
cleanToken(token) ==
  CASE token.text = "btc" -> "BTC"
    [] token.text = "foo" -> "FOO"
    [] token.text = "the" -> "THE"
    [] OTHER -> token.text

\* the length and /^[A-Z]+$/ tests hold of whatever the patterns capture
isValidTokenAny(token) == TRUE
isValidToken(token) == cleanToken(token) \notin COMMON_WORDS
isKnownToken(token) == cleanToken(token) \in KNOWN_TOKENS

\* Math.min(0.9, Math.max(0.1, 0.3 + (netVotes / 50)))
baseConfidence(post) ==
  LET netVotes == post.votes.upvotes - post.votes.downvotes
  IN  Min(900, Max(100, 300 + 20 * netVotes))

\* `${signal.action}-${signal.token}`: the token holds letters only
SignalKey(signal) == <<signal.action, signal.token>>

\* signals.filter(...) over the keys seen
FilterNothing(sigs) == sigs
RECURSIVE FilterSeen(_)
FilterSeen(sigs) ==
  IF sigs = <<>> THEN <<>>
  ELSE LET n == Len(sigs)
           front == FilterSeen(SubSeq(sigs, 1, n - 1))
       IN  IF \E i \in 1..Len(front) : SignalKey(front[i]) = SignalKey(sigs[n])
             THEN front ELSE Append(front, sigs[n])

\* the loops over BUY_PATTERNS (action "buy") and SELL_PATTERNS ("sell")
IntentSignals(post, id, action) ==
  LET hits == SelectSeq(post.phrases,
                        LAMBDA ph : ph.intent = action /\ isValidToken(ph.token))
  IN  [i \in 1..Len(hits) |->
         [action |-> action, token |-> cleanToken(hits[i].token), postId |-> id,
          confidence |-> Min(950, IF isKnownToken(hits[i].token)
                                    THEN baseConfidence(post) + 200
                                    ELSE baseConfidence(post))]]

\* the loop over TOKEN_MENTION_PATTERN, from the n-th "$" word on
RECURSIVE MentionSignals(_, _, _, _)
MentionSignals(post, id, sigs, n) ==
  IF n > Len(post.phrases) THEN sigs
  ELSE LET token == post.phrases[n].token
           exists == \E i \in 1..Len(sigs) : sigs[i].token = cleanToken(token)
       IN  IF token.dollar /\ isKnownToken(token) /\ ~exists
             THEN MentionSignals(post, id,
                    Append(sigs, [action |-> "buy", token |-> cleanToken(token),
                                  postId |-> id,
                                  confidence |-> (baseConfidence(post) * 7) \div 10]),
                    n + 1)
             ELSE MentionSignals(post, id, sigs, n + 1)

parseSignalsFromPost(post, id) ==
  FilterSeen(MentionSignals(post, id,
               IntentSignals(post, id, "buy") \o IntentSignals(post, id, "sell"), 1))

\* allSignals.push(...signals) for each post
RECURSIVE AllSignals(_)
AllSignals(ps) ==
  IF ps = <<>> THEN <<>>
  ELSE AllSignals(SubSeq(ps, 1, Len(ps) - 1)) \o parseSignalsFromPost(ps[Len(ps)], Len(ps))

\* !existing || signal.confidence > existing.confidence
ReplacesAlways(signal, existing) == TRUE
Replaces(signal, existing) == signal.confidence > existing.confidence

\* tokenActionMap after the signals given: a Map keeps a key at the place
\* where it was first set
RECURSIVE TokenActionMap(_)
TokenActionMap(sigs) ==
  IF sigs = <<>> THEN <<>>
  ELSE LET n == Len(sigs)
           map == TokenActionMap(SubSeq(sigs, 1, n - 1))
           at == {i \in 1..Len(map) : SignalKey(map[i]) = SignalKey(sigs[n])}
       IN  IF at = {} THEN Append(map, sigs[n])
           ELSE [i \in 1..Len(map) |->
                   IF i \in at /\ Replaces(sigs[n], map[i]) THEN sigs[n] ELSE map[i]]

\* uniqueSignals.sort((a, b) => b.confidence - a.confidence), which is stable
RECURSIVE SortByConfidence(_)
SortByConfidence(sigs) ==
  IF sigs = <<>> THEN <<>>
  ELSE LET n == Len(sigs)
           sorted == SortByConfidence(SubSeq(sigs, 1, n - 1))
           k == Cardinality({i \in 1..(n - 1) : sorted[i].confidence >= sigs[n].confidence})
       IN  SubSeq(sorted, 1, k) \o <<sigs[n]>> \o SubSeq(sorted, k + 1, n - 1)

parseSignalsFromFeed(ps) == SortByConfidence(TokenActionMap(AllSignals(ps)))

\* GET /api/signals/scan: getFeed has answered with the posts
FeedArrives ==
  /\ scan = "idle"
  /\ scan' = "fetched"
  /\ posts' \in SeqsUpTo(Posts, MaxPosts)
  /\ UNCHANGED <<trading, moltbook, feed>>

\* const signals = parseSignalsFromFeed(posts)
ParseFeed ==
  /\ scan = "fetched"
  /\ scan' = "parsed"
  /\ feed' = parseSignalsFromFeed(posts)
  /\ UNCHANGED <<trading, moltbook, posts>>

\* res.json(signals)
ScanReturn ==
  /\ scan = "parsed"
  /\ scan' = "idle"
  /\ posts' = <<>>
  /\ feed' = <<>>
  /\ UNCHANGED <<trading, moltbook>>

SignalScan ==
  \/ FeedArrives
  \/ ParseFeed
  \/ ScanReturn

\* ================== Moltbook client (server/moltbook-api.ts) and the routes
\* ================== that use it (unnamed/part_002)
\* The sessions that send requests; the API key of a session's agent is
\* named after the session.
Sessions == {"s1", "s2"}
Idle == [route |-> "none", at |-> "idle"]
MoltbookRoutes == {"status", "profile", "register"}

\* MoltbookAPI.request: the Authorization header is built from this.apiKey
\* when the method is called, before its fetch is awaited.
Request(s, endpoint, key) ==
  sent' = sent \cup {[session |-> s, endpoint |-> endpoint, key |-> key]}

\* A request of session s arrives; its handler awaits storage.getAgent.
MoltbookArrives(s) ==
  /\ handler[s].at = "idle"
  /\ \E r \in MoltbookRoutes : handler' = [handler EXCEPT ![s] = [route |-> r, at |-> "getAgent"]]
  /\ UNCHANGED <<trading, signals, apiKey, agents, sent>>

\* storage.getAgent has answered.  status, profile: without an API key 400;
\* otherwise setApiKey(agent.apiKey) and the call of getProfile.  register:
\* with an agent 400; otherwise the call of moltbookApi.register.
MoltbookGetAgent(s) ==
  /\ handler[s].at = "getAgent"
  /\ UNCHANGED <<trading, signals, agents>>
  /\ IF handler[s].route = "register"
       THEN IF agents[s]
              THEN /\ handler' = [handler EXCEPT ![s].at = "done"]
                   /\ UNCHANGED <<apiKey, sent>>
              ELSE /\ Request(s, "register", apiKey)
                   /\ handler' = [handler EXCEPT ![s].at = "register"]
                   /\ apiKey' = apiKey
       ELSE IF ~agents[s]
              THEN /\ handler' = [handler EXCEPT ![s].at = "done"]
                   /\ UNCHANGED <<apiKey, sent>>
              ELSE /\ apiKey' = s
                   /\ Request(s, "getProfile", s)
                   /\ handler' = [handler EXCEPT ![s].at = "getProfile"]

\* getProfile has answered.  profile: the response.  status: with a profile,
\* storage.updateAgent and the response; without, the call of getStatus.
MoltbookProfile(s) ==
  /\ handler[s].at = "getProfile"
  /\ UNCHANGED <<trading, signals, apiKey, agents>>
  /\ \E success \in BOOLEAN :
       IF handler[s].route = "status" /\ ~success
         THEN /\ Request(s, "getStatus", apiKey)
              /\ handler' = [handler EXCEPT ![s].at = "getStatus"]
         ELSE /\ handler' = [handler EXCEPT ![s].at = "done"]
              /\ sent' = sent

\* getStatus has answered: storage.updateAgent and the response, or 400
MoltbookStatus(s) ==
  /\ handler[s].at = "getStatus"
  /\ handler' = [handler EXCEPT ![s].at = "done"]
  /\ UNCHANGED <<trading, signals, apiKey, agents, sent>>

\* register has answered: on success storage.createAgent, then
\* setApiKey(api_key) and the response; otherwise 400
MoltbookRegister(s) ==
  /\ handler[s].at = "register"
  /\ handler' = [handler EXCEPT ![s].at = "done"]
  /\ \E success \in BOOLEAN :
       IF success THEN agents' = [agents EXCEPT ![s] = TRUE] /\ apiKey' = s
       ELSE UNCHANGED <<agents, apiKey>>
  /\ UNCHANGED <<trading, signals, sent>>

\* The response has been sent.
MoltbookDone(s) ==
  /\ handler[s].at = "done"
  /\ handler' = [handler EXCEPT ![s] = Idle]
  /\ sent' = {c \in sent : c.session # s}
  /\ UNCHANGED <<trading, signals, apiKey, agents>>

Moltbook ==
  \E s \in Sessions :
    \/ MoltbookArrives(s) \/ MoltbookGetAgent(s) \/ MoltbookProfile(s)
    \/ MoltbookStatus(s) \/ MoltbookRegister(s) \/ MoltbookDone(s)

\* ========================================================= specification
\* ===================== agents per session (unnamed/part_002, api/agent)
MaxAgents == 2

\* Keys a client brings to /api/agent/register of api/agent/register.ts or
\* to recover, besides those the table holds.
ClientKeys == {"c1"}
NoAgent == [id |-> 0, session |-> "none", key |-> "none"]

\* DatabaseStorage.getAgent: the rows a query with LIMIT 1 can answer with,
\* those of the session, or any row when no session id is given.
getAgent(sessionId) ==
  IF sessionId # "none" THEN {a \in agentTable : a.session = sessionId}
  ELSE agentTable
\* agents[0] || null
FirstOrNull(rows) == IF rows = {} THEN {NoAgent} ELSE rows

AgentRoutes == {"register", "registerWithKey", "recover", "delete", "buy"}

\* A request arrives on a connection: the checks of its header and body,
\* and its first query.  x-session-id is a session or absent ("none").
AgentArrives(c) ==
  /\ requests[c] = NoRequest
  /\ UNCHANGED <<service, signals, moltbook, posting, agentTable, nextAgentId, walletUse>>
  /\ \E route \in AgentRoutes, sessionId \in Sessions \cup {"none"},
        key \in ClientKeys \cup {a.key : a \in agentTable} :
       \E agent \in FirstOrNull(IF route = "recover"
                                   THEN {a \in agentTable : a.key = key}
                                   ELSE getAgent(sessionId)) :
         LET refused ==
               CASE route \in {"register", "registerWithKey"} ->
                      sessionId = "none" \/ agent # NoAgent
                 [] route = "recover" -> sessionId = "none" \/ agent = NoAgent
                 [] route = "buy" -> agent = NoAgent
                 [] route = "delete" -> FALSE
         IN /\ route \notin {"registerWithKey", "recover"} => key = "c1"
            /\ requests' = [requests EXCEPT ![c] =
                 IF refused THEN [route |-> route, at |-> "answer"]
                 ELSE [route |-> route,
                       at |-> IF route = "registerWithKey" THEN "keyCheck" ELSE "write",
                       session |-> sessionId, key |-> key, agent |-> agent]]

\* The request's query has answered: its second query (register.ts), or
\* its write and the response; a registration at Moltbook can be refused.
AgentCompletes(c) ==
  LET r == requests[c] IN
  /\ r.at \in {"keyCheck", "write", "answer"}
  /\ UNCHANGED <<service, signals, moltbook, posting>>
  /\ CASE r.at = "answer" ->
             /\ requests' = [requests EXCEPT ![c] = NoRequest]
             /\ UNCHANGED <<agentTable, nextAgentId, walletUse>>
       [] r.at = "keyCheck" ->
             /\ requests' = [requests EXCEPT ![c].at =
                  IF \E a \in agentTable : a.key = r.key THEN "answer" ELSE "write"]
             /\ UNCHANGED <<agentTable, nextAgentId, walletUse>>
       [] r.at = "write" /\ r.route \in {"register", "registerWithKey"} ->
             /\ nextAgentId <= MaxAgents
             /\ requests' = [requests EXCEPT ![c] = NoRequest]
             /\ walletUse' = walletUse
             /\ \/ /\ agentTable' = agentTable \cup
                        {[id |-> nextAgentId, session |-> r.session,
                          key |-> IF r.route = "register"
                                    THEN "m" \o ToString(nextAgentId) ELSE r.key]}
                   /\ nextAgentId' = nextAgentId + 1
                \/ /\ r.route = "register"
                   /\ UNCHANGED <<agentTable, nextAgentId>>
       [] r.at = "write" /\ r.route = "recover" ->
             /\ requests' = [requests EXCEPT ![c] = NoRequest]
             /\ agentTable' = {IF a.id = r.agent.id THEN [a EXCEPT !.session = r.session]
                               ELSE a : a \in agentTable}
             /\ UNCHANGED <<nextAgentId, walletUse>>
       [] r.at = "write" /\ r.route = "delete" ->
             /\ requests' = [requests EXCEPT ![c] = NoRequest]
             /\ agentTable' = {a \in agentTable : a.id # r.agent.id}
             /\ UNCHANGED <<nextAgentId, walletUse>>
       [] r.at = "write" /\ r.route = "buy" ->
             /\ requests' = [requests EXCEPT ![c] = NoRequest]
             /\ walletUse' = {[session |-> r.session, agent |-> r.agent]}
             /\ UNCHANGED <<agentTable, nextAgentId>>

\* ================= posting queue (unnamed/part_002, server/storage.ts)
\* Times are minutes; a date that is null is -1.
Cooldown == 30
Tick == 15
MaxTime == 30
MaxTitles == 3

\* DatabaseStorage.getLastPostedTime: the latest postedAt of the posted rows
getLastPostedTime ==
  LET times == {postQueue[i].postedAt : i \in {j \in DOMAIN postQueue :
                                                postQueue[j].status = "posted"}}
  IN IF times = {} THEN -1 ELSE CHOOSE t \in times : \A u \in times : u <= t

\* lastPosted && lastPosted > thirtyMinsAgo
InCooldown(lastPosted, t) == lastPosted # -1 /\ lastPosted > t - Cooldown

\* DatabaseStorage.getPendingPosts()[0]: the rows that can come first, those
\* pending and due with the earliest scheduledFor
getPendingPosts ==
  LET due == {i \in DOMAIN postQueue : /\ postQueue[i].status = "pending"
                                        /\ postQueue[i].scheduledFor <= now}
  IN {i \in due : \A j \in due : postQueue[i].scheduledFor <= postQueue[j].scheduledFor}

\* DatabaseStorage.getPostQueue()[0]: the row with the latest createdAt,
\* which the database sets at insertion: the row inserted last
getPostQueue == Len(postQueue)

\* Time passes.
ClockAdvances ==
  /\ now + Tick <= MaxTime
  /\ now' = now + Tick
  /\ UNCHANGED <<service, signals, moltbook, accounts, postQueue, published, workers, nextTitle>>

\* POST /api/webhook/:secret or POST /api/queue/process arrives, for an
\* active trigger and a registered agent: the rate-limit check.  Each
\* webhook brings a title of its own.
QueueArrives(c) ==
  /\ workers[c] = NoRequest
  /\ UNCHANGED <<service, signals, moltbook, accounts, now, postQueue, published>>
  /\ LET lastPosted == getLastPostedTime
     IN \/ /\ nextTitle <= MaxTitles
           /\ nextTitle' = nextTitle + 1
           /\ workers' = [workers EXCEPT ![c] =
                [route |-> "webhook", title |-> nextTitle, item |-> 0, ok |-> TRUE,
                 scheduledFor |-> lastPosted + Cooldown,
                 at |-> IF InCooldown(lastPosted, now) THEN "enqueue" ELSE "post"]]
        \/ /\ nextTitle' = nextTitle
           /\ workers' = [workers EXCEPT ![c] =
                IF InCooldown(lastPosted, now) THEN NoRequest
                ELSE [route |-> "process", title |-> 0, item |-> 0, ok |-> TRUE,
                      scheduledFor |-> 0, at |-> "pending"]]

\* storage.addToQueue: of the webhook held back by the rate limit, or of
\* the tracking row after an immediate post (scheduledFor: new Date())
AddToQueue(c) ==
  LET w == workers[c] IN
  /\ w.at \in {"enqueue", "track"}
  /\ UNCHANGED <<service, signals, moltbook, accounts, now, published, nextTitle>>
  /\ postQueue' = Append(postQueue,
       [title |-> w.title, status |-> "pending", postedAt |-> -1,
        scheduledFor |-> IF w.at = "enqueue" THEN w.scheduledFor ELSE now])
  /\ workers' = [workers EXCEPT ![c] =
       IF w.at = "enqueue" THEN NoRequest ELSE [w EXCEPT !.at = "list"]]

\* storage.getPendingPosts of the process route, and its choice of pending[0]
ProcessPending(c) ==
  /\ workers[c].at = "pending"
  /\ UNCHANGED <<service, signals, moltbook, accounts, now, postQueue, published, nextTitle>>
  /\ IF getPendingPosts = {}
       THEN workers' = [workers EXCEPT ![c] = NoRequest]
       ELSE \E i \in getPendingPosts :
              workers' = [workers EXCEPT ![c].at = "post", ![c].item = i,
                                         ![c].title = postQueue[i].title]

\* moltbookApi.createPost, of either route
CreatePost(c) ==
  LET w == workers[c] IN
  /\ w.at = "post"
  /\ UNCHANGED <<service, signals, moltbook, accounts, now, postQueue, nextTitle>>
  /\ \/ /\ published' = published \cup
                          {[title |-> w.title, at |-> now, item |-> w.item, by |-> c]}
        /\ workers' = [workers EXCEPT ![c].at =
                         IF w.route = "webhook" THEN "track" ELSE "mark"]
     \/ /\ published' = published
        /\ workers' = [workers EXCEPT ![c] =
             IF w.route = "webhook" THEN NoRequest
             ELSE [w EXCEPT !.at = "mark", !.ok = FALSE]]

\* storage.getPostQueue of the webhook route, and its choice of queueItems[0]
WebhookList(c) ==
  /\ workers[c].at = "list"
  /\ UNCHANGED <<service, signals, moltbook, accounts, now, postQueue, published, nextTitle>>
  /\ workers' = [workers EXCEPT ![c] =
       IF getPostQueue > 0 THEN [@ EXCEPT !.at = "mark", !.item = getPostQueue]
       ELSE NoRequest]

\* storage.markAsPosted / markAsFailed and the response
MarkPost(c) ==
  LET w == workers[c] IN
  /\ w.at = "mark"
  /\ UNCHANGED <<service, signals, moltbook, accounts, now, published, nextTitle>>
  /\ postQueue' = [postQueue EXCEPT ![w.item] =
       IF w.ok THEN [@ EXCEPT !.status = "posted", !.postedAt = now]
       ELSE [@ EXCEPT !.status = "failed"]]
  /\ workers' = [workers EXCEPT ![c] = NoRequest]

Init ==
  /\ op = "none"
  /\ pc = "idle"
  /\ args = NoArgs
  /\ calls = <<>>
  /\ balance = 0
  /\ amountIn = 0
  /\ decimals = 0
  /\ currentBalance = 0
  /\ amountToSell = 0
  /\ amountToUnwrap = 0
  /\ swapData = NoQuote
  /\ ethBefore = 0
  /\ receipt = "none"
  /\ result = NoResult
  /\ ethBalance \in 0..MaxEth
  /\ tokenBalance \in 0..MaxTok
  /\ order = "none"
  /\ okxCredentials = FALSE
  /\ mexcCredentials = FALSE
  /\ lastSold = 0
  /\ scan = "idle"
  /\ posts = <<>>
  /\ feed = <<>>
  /\ apiKey = "none"
  /\ agents = [s \in Sessions |-> FALSE]
  /\ handler = [s \in Sessions |-> Idle]
  /\ sent = {}
  /\ mexcStored = FALSE
  /\ agentTable = {}
  /\ nextAgentId = 1
  /\ requests = [c \in Connections |-> NoRequest]
  /\ walletUse = {}
  /\ now = 0
  /\ postQueue = <<>>
  /\ published = {}
  /\ workers = [c \in Connections |-> NoRequest]
  /\ nextTitle = 1

Next ==
  \/ ChainChange
  \/ Return
  \/ BuyHandler
  \/ TradeService

Spec == Init /\ [][Next]_vars

\* The exchange clients alone, on a chain that does not move.
InitExchange ==
  /\ Init
  /\ ethBalance = 0
  /\ tokenBalance = 0

NextExchange ==
  \/ Return
  \/ Exchange

SpecExchange == InitExchange /\ [][NextExchange]_vars

\* The signal scan alone.
NextSignals == SignalScan

SpecSignals == InitExchange /\ [][NextSignals]_vars

\* The Moltbook routes alone, their handlers interleaved at their awaits.
NextMoltbook == Moltbook

SpecMoltbook == InitExchange /\ [][NextMoltbook]_vars

\* The agent routes alone, their requests interleaved.
NextAgents == \E c \in Connections : AgentArrives(c) \/ AgentCompletes(c)
SpecAgents == InitExchange /\ [][NextAgents]_vars

\* The webhook and queue routes alone, their requests interleaved.
NextQueue ==
  \/ ClockAdvances
  \/ \E c \in Connections :
       \/ QueueArrives(c) \/ AddToQueue(c) \/ ProcessPending(c)
       \/ CreatePost(c) \/ WebhookList(c) \/ MarkPost(c)
SpecQueue == InitExchange /\ [][NextQueue]_vars

\* ================================================================ claims
Idx == DOMAIN calls

\* The provider a request of the quote chain goes to, by priority.
Provider(c) ==
  CASE c \in {"kyber.route", "kyber.build"} -> 1
    [] c \in {"odos.quote", "odos.assemble"} -> 2
    [] c \in {"para.price", "para.tx"} -> 3
    [] c = "inch.swap" -> 4
    [] OTHER -> 0
TypeRank(t) ==
  CASE t = "kyberswap" -> 1 [] t = "odos" -> 2 [] t = "paraswap" -> 3
    [] t = "1inch" -> 4 [] OTHER -> 0
\* Provider q was asked before call i and did not yield a quote.
FailedBefore(q, i) ==
  \E j \in 1..(i - 1) : Provider(calls[j].call) = q /\ calls[j].res = "fail"
\* Provider q yielded a quote: the last request of its protocol was answered.
Succeeded(q) ==
  \E i \in Idx : /\ Provider(calls[i].call) = q
                 /\ calls[i].call \in {"kyber.build", "odos.assemble", "para.tx", "inch.swap"}
                 /\ calls[i].res = "ok"

\* C1: in the buy handler's getSwapQuote a provider is contacted only after
\* every provider of higher priority (Kyberswap, Odos, ParaSwap, 1inch, in
\* that order) was asked and failed; a ParaSwap quote is returned only
\* after Kyberswap and then Odos were attempted.
C1_PriorityOrder ==
  op = "buyHandler" =>
    /\ \A i \in Idx : \A q \in 1..(Provider(calls[i].call) - 1) : FailedBefore(q, i)
    /\ swapData.type = "paraswap" =>
         \E i \in Idx, j \in Idx, k \in Idx :
            /\ i < j /\ j < k
            /\ calls[i].call = "kyber.route"
            /\ calls[j].call = "odos.quote"
            /\ calls[k].call = "para.price"
C1_Witness == op = "buyHandler" /\ pc = "send" /\ swapData.type = "paraswap"

\* C2: first success wins: the quote held is that of the one provider that
\* succeeded, every provider of higher priority failed, and no provider of
\* lower priority is contacted, then or in the rest of the request; with no
\* quote held no provider has succeeded.
C2_FirstSuccessWins ==
  op = "buyHandler" =>
    /\ swapData # NoQuote =>
         LET p == TypeRank(swapData.type) IN
           /\ p > 0 /\ Succeeded(p)
           /\ \A q \in 1..4 : Succeeded(q) => q = p
           /\ \A q \in 1..(p - 1) : FailedBefore(q, Len(calls) + 1)
           /\ \A i \in Idx : Provider(calls[i].call) <= p
    /\ swapData = NoQuote => \A q \in 1..4 : ~Succeeded(q)
C2_Witness ==
  op = "buyHandler" /\ pc = "done" /\ result.success /\ result.via = "odos"

Buys == {"buyHandler", "buyToken"}
AggregatorCalls == {i \in Idx : Provider(calls[i].call) > 0}
Submissions ==
  {i \in Idx : calls[i].call \in {"rpc.sendTransaction", "rpc.writeContract.approve",
                                  "rpc.writeContract.withdraw"}}
\* The buy has its amount and the wallet's balance is still the one it
\* started with (no transaction of its own has been mined).
BuyUnderway ==
  /\ op \in Buys
  /\ receipt = "none"
  /\ amountIn > 0
  /\ IF op = "buyHandler"
       THEN \E i \in Idx : calls[i].call = "rpc.getBalance" /\ calls[i].res = "ok"
       ELSE pc \notin {"idle", "account"}
InsufficientFundsResult ==
  /\ ~result.success
  /\ result.error \in {"Insufficient ETH", "Insufficient ETH for gas + swap",
                       "Insufficient funds. Add more ETH to your wallet."}

\* C3: in every buy (the handler and buyToken alike), when the wallet's
\* native balance is below the amount plus the gas buffer no request goes to
\* an aggregator, no transaction is submitted, and the buy ends with the
\* insufficient-funds result.
C3_InsufficientFundsStopsBuy ==
  (BuyUnderway /\ ethBalance < amountIn + GasBuffer) =>
     /\ AggregatorCalls = {}
     /\ Submissions = {}
     /\ pc = "done" => InsufficientFundsResult

\* C4: in a sell the swap transaction is submitted only after the approval,
\* to the same address as the approval's spender and for the amount to
\* sell, was submitted and its receipt awaited.
C4_ApproveBeforeSwap ==
  op \in Sells =>
    \A j \in Idx :
      calls[j].call = "rpc.sendTransaction" =>
        \E i \in 1..(j - 1), k \in 1..(j - 1) :
          /\ i < k
          /\ calls[i].call = "rpc.writeContract.approve"
          /\ calls[i].res = "hash"
          /\ calls[i].target = calls[j].target
          /\ calls[i].amt = amountToSell
          /\ calls[k].call = "rpc.waitForTransactionReceipt"
          /\ calls[k].target = "approve"
          /\ calls[k].res \in {"success", "reverted"}
C4_Witness ==
  /\ op \in Sells
  /\ \E j \in Idx : calls[j].call = "rpc.sendTransaction" /\ calls[j].res = "hash"

\* The token balances this operation read from the chain.
LiveReads ==
  {calls[i].amt : i \in {j \in Idx : /\ calls[j].call = "rpc.readContract"
                                     /\ calls[j].target = "balanceOf"
                                     /\ calls[j].res = "ok"}}

\* C5: a sell of "all" quotes, builds and approves exactly the token balance
\* it read from the chain in this call, also when the sell just before it
\* decided on another amount.
C5_SellAllUsesLiveBalance ==
  (op \in Sells /\ args.all) =>
    \A i \in Idx :
      calls[i].call \in {"kyber.route", "kyber.build", "rpc.writeContract.approve"} =>
        calls[i].amt \in LiveReads
C5_Witness ==
  /\ op \in Sells /\ args.all /\ lastSold # 0
  /\ \E i \in Idx : /\ calls[i].call = "rpc.writeContract.approve"
                    /\ calls[i].amt # lastSold

NetworkCalls ==
  {i \in Idx : calls[i].call \in {"rpc.readContract", "rpc.getBalance", "rpc.sendTransaction",
                                  "rpc.writeContract.approve", "rpc.waitForTransactionReceipt",
                                  "kyber.route", "kyber.build"}}
NothingToSellResult == ~result.success /\ result.error = "No tokens to sell"

ZeroAmountDecided ==
  /\ op \in Sells /\ ~args.nan
  /\ \E b \in LiveReads : (IF args.all THEN b ELSE (args.amount * Pow10(decimals)) \div 2) = 0

C7_UnroutableBuyIsNotSuccess ==
  ( /\ op = "buyHandler" /\ pc = "done" /\ ~args.launch
    /\ \A q \in 1..4 : FailedBefore(q, Len(calls) + 1)
    /\ swapData = NoQuote )
  => ~result.success

ApprovalFailed ==
  \E i \in Idx :
    \/ calls[i].call = "rpc.writeContract.approve" /\ calls[i].res = "throw"
    \/ /\ calls[i].call = "rpc.waitForTransactionReceipt" /\ calls[i].target = "approve"
       /\ calls[i].res \in {"reverted", "throw"}

\* C8: when the approval of a sell fails or is not mined successfully, no
\* swap transaction is attempted and the sell does not end with success.
C8_FailedApprovalStopsSell ==
  (op \in Sells /\ ApprovalFailed) =>
    /\ \A i \in Idx : calls[i].call # "rpc.sendTransaction"
    /\ pc = "done" => ~result.success

\* C9: a buy or a sell reports success only when its swap transaction was
\* confirmed as successful; one whose swap reverted on-chain does not.
C9_SuccessOnlyWhenSwapSucceeded ==
  (op \in Buys \cup Sells /\ pc = "done" /\ result.success) =>
    \E i \in Idx : /\ calls[i].call = "rpc.waitForTransactionReceipt"
                   /\ calls[i].target = "swap"
                   /\ calls[i].res = "success"

\* C10: every core operation ends with a result value; no exception of an
\* underlying RPC or HTTP call leaves it.
C10_NoExceptionEscapes == pc = "done" => (result.returned /\ ~result.thrown)

\* ------------------------------------------------------- signal parser
NoTwoWithSameKey(sigs) ==
  \A i \in 1..Len(sigs), j \in 1..Len(sigs) :
    SignalKey(sigs[i]) = SignalKey(sigs[j]) => i = j
PostIds == 1..Len(posts)
PerPost(id) == parseSignalsFromPost(posts[id], id)

\* C11: what parseSignalsFromFeed returns for a batch never holds two
\* signals with the same (action, token), and neither does what
\* parseSignalsFromPost returns for any post of the batch.
C11_NoDuplicateSignals ==
  scan = "parsed" =>
    /\ NoTwoWithSameKey(feed)
    /\ \A id \in PostIds : NoTwoWithSameKey(PerPost(id))
C11_Witness ==
  /\ scan = "parsed" /\ Len(posts) = 2 /\ Len(feed) = 1
  /\ Len(posts[1].phrases) = 2
  /\ \A n \in 1..2 : posts[1].phrases[n].intent = "buy"
  /\ posts[1].phrases[1].token.text = "btc" /\ posts[1].phrases[2].token.text = "BTC"
  /\ Len(PerPost(2)) = 1

\* C12: every signal the extractor produces, from an intent pattern or from
\* a mention alone, has a confidence from 0.1 to 0.95.
C12_ConfidenceInRange ==
  scan = "parsed" =>
    \A i \in 1..Len(feed) : feed[i].confidence >= 100 /\ feed[i].confidence <= 950

NetVotes(id) == posts[id].votes.upvotes - posts[id].votes.downvotes

\* C13: for two posts with equal net votes, every signal for a known token
\* has a confidence at least that of every signal for a token that is not
\* known.
C13_KnownAtLeastUnknown ==
  scan = "parsed" =>
    \A a \in PostIds, b \in PostIds :
      (a # b /\ NetVotes(a) = NetVotes(b)) =>
        LET known == PerPost(a)
            other == PerPost(b)
        IN  \A i \in 1..Len(known), j \in 1..Len(other) :
              (known[i].token \in KNOWN_TOKENS /\ other[j].token \notin KNOWN_TOKENS)
                => known[i].confidence >= other[j].confidence

\* No phrase of the batch is a buy or sell pattern with a valid candidate,
\* and none is a "$" mention of a known token.
NothingRecognizable ==
  \A id \in PostIds : \A n \in 1..Len(posts[id].phrases) :
    LET ph == posts[id].phrases[n] IN
      /\ ph.intent \in {"buy", "sell"} => cleanToken(ph.token) \in COMMON_WORDS
      /\ ph.token.dollar => cleanToken(ph.token) \notin KNOWN_TOKENS

\* C14: a batch with no buy or sell pattern on a valid candidate and no
\* "$" mention of a known token yields the empty sequence.
C14_NothingRecognizableIsEmpty ==
  (scan = "parsed" /\ NothingRecognizable) => feed = <<>>
C14_Witness ==
  /\ scan = "parsed" /\ NothingRecognizable /\ feed = <<>>
  /\ \E id \in PostIds : \E n \in 1..Len(posts[id].phrases) :
       posts[id].phrases[n].intent = "buy"
  /\ \E id \in PostIds : \E n \in 1..Len(posts[id].phrases) :
       posts[id].phrases[n].token.dollar

PerPostSignals == UNION {{PerPost(id)[i] : i \in 1..Len(PerPost(id))} : id \in PostIds}

\* C15: for each (action, token) of the batch the signal kept has the
\* highest confidence of the per-post signals with that key, and the
\* sequence returned is in non-increasing order of confidence.
C15_HighestKeptAndSorted ==
  scan = "parsed" =>
    LET all == PerPostSignals IN
      /\ \A s \in all : \E i \in 1..Len(feed) : SignalKey(feed[i]) = SignalKey(s)
      /\ \A i \in 1..Len(feed) :
           /\ feed[i] \in all
           /\ \A s \in all :
                SignalKey(s) = SignalKey(feed[i]) => s.confidence <= feed[i].confidence
      /\ \A i \in 1..Len(feed), j \in 1..Len(feed) :
           i < j => feed[i].confidence >= feed[j].confidence
C15_Witness ==
  /\ scan = "parsed" /\ Len(posts) = 2 /\ Len(feed) = 2
  /\ \E s \in PerPostSignals :
       SignalKey(s) = SignalKey(feed[1]) /\ s.confidence < feed[1].confidence
  /\ feed[1].postId = 2 /\ feed[2].postId = 1
  /\ feed[1].confidence > feed[2].confidence

\* ------------------------------------------------- compound exchange orders
Compound == OkxCompound \cup MexcRoutes
PrimaryCalls == {i \in Idx : calls[i].call \in {"okx.order", "mexc.order"}}
TakeProfitCalls == {i \in Idx : calls[i].call \in {"okx.order-algo.tp", "mexc.order.tp"}}
StopLossCalls == {i \in Idx : calls[i].call \in {"okx.order-algo.sl", "mexc.order.sl"}}
BracketCalls == TakeProfitCalls \cup StopLossCalls
\* The primary order was asked for and did not come back as an order.
PrimaryFailed ==
  /\ op \in Compound /\ pc \notin {"idle", "okx.leverage", "okx.order", "mexc.primary"}
  /\ \A i \in PrimaryCalls : calls[i].res # "ok"

\* C16: in a compound operation whose primary market order failed, no
\* take-profit or stop-loss order is placed.
C16_NoBracketAfterFailedPrimary ==
  PrimaryFailed => BracketCalls = {}
C16_Witness ==
  /\ PrimaryFailed /\ pc = "done" /\ args.tp /\ args.sl
  /\ \E i \in PrimaryCalls : calls[i].res \in {"error", "rejected"}

\* C17: when a take-profit or stop-loss order fails (rejected by the venue
\* or failing in transport) after the primary order succeeded, the compound
\* operation still returns the primary order to its caller.
C17_BracketFailureKeepsPrimary ==
  ( /\ op \in Compound /\ pc = "done"
    /\ \E i \in PrimaryCalls : calls[i].res = "ok"
    /\ \E j \in BracketCalls : calls[j].res # "ok" )
  => (result.returned /\ ~result.thrown /\ result.via = order)

\* The primary order came back reporting a quantity filled.
ReportsFilledQuantity == order = "filled"

\* C18: bracket orders are placed only when a take-profit or stop-loss
\* price is supplied and the primary order reports a filled quantity; each
\* is on the side opposite to the primary order, and there is at most one
\* take-profit and one stop-loss order per operation.
C18_BracketsOnlyAfterFill ==
  (op \in Compound /\ BracketCalls # {}) =>
    /\ args.tp \/ args.sl
    /\ ReportsFilledQuantity
    /\ \A j \in BracketCalls : \A i \in PrimaryCalls : calls[j].target # calls[i].target
    /\ Cardinality(TakeProfitCalls) <= 1
    /\ Cardinality(StopLossCalls) <= 1

\* ------------------------------------------------------------ native value
SwapsSubmitted ==
  {i \in Idx : calls[i].call = "rpc.sendTransaction" /\ calls[i].res = "hash"}

\* C19: every swap transaction submitted carries a native value equal to
\* the amount to spend when it is a buy, whichever provider gave the quote,
\* and a native value of zero when it is a sell.
C19_NativeValue ==
  /\ (op \in Buys /\ amountIn > 0) => \A i \in SwapsSubmitted : calls[i].amt = amountIn
  /\ op \in Sells => \A i \in SwapsSubmitted : calls[i].amt = 0

\* --------------------------------------------------------- Moltbook API key
\* C20: under every interleaving of the handlers of different sessions,
\* each Moltbook call issued while handling a request of session S (the
\* getStatus fallback and the register call included) carries the API key
\* of S's own agent (none yet, for a register call), never that of another
\* session.
C20_CallsCarryOwnKey ==
  \A c \in sent :
    /\ c.key \notin Sessions \ {c.session}
    /\ c.endpoint # "register" => c.key = c.session

\* ------------------------------------------- aggregator failure classes
\* C21 (its build-step half): when the aggregator client's build request
\* fails after a route was found, the operation ends with the
\* no-route/no-liquidity outcome.
C21_BuildFailureIsNoRoute ==
  ( /\ op \in QuotedOps /\ pc = "done" /\ calls # <<>> /\ SellAmount > 0
    /\ calls[Len(calls)].call = "kyber.build"
    /\ calls[Len(calls)].res = "fail" )
  => result.error \in {"No liquidity found for this token yet. Try again later.",
                       "No liquidity found for this token yet.",
                       "No liquidity found."}

QuotesObtained ==
  {i \in Idx : /\ calls[i].call \in {"kyber.build", "odos.assemble", "para.tx", "inch.swap"}
               /\ calls[i].res = "ok"}
SwapsHandedOver == {i \in Idx : calls[i].call = "rpc.sendTransaction"}

\* C26: a buy request hands at most one swap transaction to the chain:
\* the one built from the single quote obtained for the request, or the
\* dev-buy when no quote was obtained, never both; after a failed
\* submission of the aggregator's transaction there is no dev-buy.
C26_OneSwapPerBuy ==
  op = "buyHandler" =>
    /\ Cardinality(QuotesObtained) <= 1
    /\ Cardinality(SwapsHandedOver) <= 1
    /\ \A i \in SwapsHandedOver :
         IF QuotesObtained = {}
           THEN calls[i].target = "devbuy"
           ELSE /\ calls[i].target = swapData.to /\ calls[i].target # "devbuy"
                /\ \A j \in QuotesObtained : j < i
    /\ (\E i \in SwapsHandedOver : calls[i].target # "devbuy" /\ calls[i].res = "throw")
         => pc = "done" /\ ~result.success
C26_Witness ==
  /\ op = "buyHandler" /\ pc = "done" /\ QuotesObtained # {}
  /\ \E i \in SwapsHandedOver : calls[i].res = "throw"

\* ------------------------------------------------ proceeds of a sell
BalanceReads == {i \in Idx : calls[i].call = "rpc.getBalance" /\ calls[i].res = "ok"}

\* C27: a successful sell reports max(0, balance after the swap - balance
\* before the swap), the balance before being read after the wait for the
\* approval's receipt returned and before the swap was submitted, the
\* balance after being read after the swap's receipt; it is never negative.
C27_ReceivedIsClampedDelta ==
  (op \in Sells /\ pc = "done" /\ result.success) =>
    \E b \in BalanceReads, a \in BalanceReads :
      /\ BalanceReads = {b, a} /\ b < a
      /\ result.received = Max(0, calls[a].amt - calls[b].amt)
      /\ result.received >= 0
      /\ \E w \in 1..(b - 1) :
           calls[w].call = "rpc.waitForTransactionReceipt" /\ calls[w].target = "approve"
      /\ \E t \in (b + 1)..(a - 1) : \E r \in (t + 1)..(a - 1) :
           /\ calls[t].call = "rpc.sendTransaction"
           /\ calls[r].call = "rpc.waitForTransactionReceipt" /\ calls[r].target = "swap"
      /\ \A t \in 1..b : calls[t].call # "rpc.sendTransaction"
C27_Witness ==
  /\ op \in Sells /\ pc = "done" /\ result.success /\ result.received = 0
  /\ \E b \in BalanceReads, a \in BalanceReads : b < a /\ calls[a].amt < calls[b].amt

\* ------------------------------------------------- stored MEXC credentials
\* C28: when a request that saves or deletes the MEXC credentials has
\* succeeded, the client in memory reports hasCredentials() exactly when
\* the storage holds credentials (after a deletion: it reports none, so
\* that the authenticated routes reject).
C28_ClientAgreesWithStorage ==
  ( /\ op \in {"mexc.saveCredentials", "mexc.deleteCredentials"}
    /\ pc = "done" /\ result.success )
  => (mexcCredentials <=> mexcStored)

\* ------------------------------------------------------ agents per session
\* C23: whatever register, recover and delete requests were handled, and
\* however they interleaved, no two agents are bound to the same session
\* id and no two agents carry the same Moltbook API key.
C23_OneAgentPerSessionAndKey ==
  \A a \in agentTable, b \in agentTable :
    (a.session = b.session \/ a.key = b.key) => a = b

\* C24: the agent a request obtained, and the wallet a trade request used,
\* is one whose stored session id is the session id of the request; a
\* request without a session id obtains none.
C24_AgentOfOwnSession ==
  /\ \A u \in walletUse : u.session # "none" /\ u.agent.session = u.session
  /\ \A c \in Connections :
       (requests[c].route \in {"buy", "delete"} /\ requests[c].at = "write"
          /\ requests[c].agent # NoAgent)
       => /\ requests[c].session # "none"
          /\ requests[c].agent.session = requests[c].session

\* ------------------------------------------------------------ posting queue
\* C25 (the spacing of the posts): under every interleaving of webhook and
\* queue-process requests, any two posts published to Moltbook through
\* them are at least 30 minutes apart.
C25_PostsThirtyMinutesApart ==
  \A p \in published, q \in published :
    (p # q /\ p.at <= q.at) => q.at - p.at >= 30

\* C29: a row of the queue has the status posted only if its own title
\* was published to Moltbook.
C29_PostedOnlyIfPublished ==
  \A i \in DOMAIN postQueue :
    postQueue[i].status = "posted" =>
      \E p \in published : p.title = postQueue[i].title

\* C30: no row of the queue is published to Moltbook more than once by
\* queue-process requests, later or concurrent.
C30_QueuedPostPublishedOnce ==
  \A p \in published, q \in published :
    (p # q /\ p.item # 0) => p.item # q.item
====
